---- MODULE Spec2Model ----
(***************************************************************************)
(* A model of the face-auth-app backend core:                              *)
(*   - FaceService.find_match and the distance it rests on                 *)
(*     (src/backend/face_service.py),                                      *)
(*   - the embedding codec and the image payload decoder                   *)
(*     (src/backend/face_service.py),                                      *)
(*   - FaceService.validate_face_quality (src/backend/face_service.py),    *)
(*   - LivenessDetector.check_liveness (src/backend/liveness.py),          *)
(*   - the routes register_user, authenticate_user and delete_user over    *)
(*     the users and face_embeddings tables (src/backend/routes/auth.py,   *)
(*     src/backend/models.py).                                             *)
(*                                                                         *)
(* Numbers.  Embedding coordinates are fixed-point, in tenths; a distance  *)
(* is fixed-point in thousandths (the square root rounded down), so the    *)
(* threshold 0.5 is 500 and a similarity of 1.0 is 1000.  With coordinates *)
(* on the tenths grid a squared distance is a whole number of hundredths,  *)
(* so no distance lies strictly between 0.500 and 0.501 and the rounding   *)
(* never moves a distance across the threshold.  An eye aspect ratio is    *)
(* fixed-point in hundredths (0.25 is 25).                                 *)
(***************************************************************************)
EXTENDS Integers, Sequences, FiniteSets, TLC

VARIABLES
    \* ---- find_match (one call) ----
    query,              \* query_embedding: a vector (sequence of coordinates)
    stored,             \* stored_embeddings: sequence of [id, user_id, vec]
    fm_pc,              \* "idle" | "scan" | "done"
    fm_i,               \* position of the for loop (next candidate, 1-based)
    best_match,         \* <<>> for None, <<[id, user_id, distance]>> otherwise
    best_distance,      \* float('inf') or the least distance seen
    fm_result,          \* what the call produced
    \* ---- the LivenessDetector singleton and the check_liveness calls ----
    predictor_loaded,   \* self.predictor_loaded
    blink_counter,      \* self.blink_counter
    frame_counter,      \* self.frame_counter
    frames,             \* per call: the frame sequence passed in
    lv_pc,              \* per call: "idle" | "start" | "loop" | "ret" | "done"
    lv_i,               \* per call: position of the for loop (1-based)
    was_open,           \* per call: local was_open
    consecutive_closed, \* per call: local consecutive_closed
    blink_detected,     \* per call: local blink_detected
    lv_result,          \* per call: what the call returned
    processed,          \* per call: how many frames went to detect_blink
    \* ---- the codec: embedding_to_bytes, bytes_to_embedding, decode_base64_image ----
    cd_op,              \* "none" | "roundtrip" | "decode" | "image"
    cd_pc,              \* "idle" | "encode" | "decode" | "image" | "done"
    cd_array,           \* the array handed to embedding_to_bytes
    cd_bytes,           \* the bytes handed to bytes_to_embedding
    cd_payload,         \* the string handed to decode_base64_image
    cd_out,             \* what the last operation produced
    \* ---- validate_face_quality (one call) ----
    q_image,            \* the image, as what the face_recognition library sees in it
    q_pc,               \* "idle" | "detect" | "encode" | "done"
    q_result,           \* (is_valid, message)
    detector_calls,     \* calls of face_recognition.face_locations
    extractor_calls,    \* calls of face_recognition.face_encodings
    \* ---- the database and the /api routes (register, authenticate, delete) ----
    users,              \* table users: set of [id, email]
    embeddings,         \* table face_embeddings: rows [id, user_id, embedding]
    request,            \* the request the last handler served
    response            \* what that handler answered

matchVars == <<query, stored, fm_pc, fm_i, best_match, best_distance, fm_result>>

detectorVars == <<predictor_loaded, blink_counter, frame_counter>>

callVars == <<frames, lv_pc, lv_i, was_open, consecutive_closed, blink_detected,
              lv_result, processed>>

liveVars == <<detectorVars, callVars>>

codecVars == <<cd_op, cd_pc, cd_array, cd_bytes, cd_payload, cd_out>>

qualityVars == <<q_image, q_pc, q_result, detector_calls, extractor_calls>>

authVars == <<users, embeddings, request, response>>

vars == <<matchVars, liveVars, codecVars, qualityVars, authVars>>

\* what the operations of one component leave alone
notMatch == <<liveVars, codecVars, qualityVars, authVars>>

notLive == <<matchVars, codecVars, qualityVars, authVars>>

notCodec == <<matchVars, liveVars, qualityVars, authVars>>

notQuality == <<matchVars, liveVars, codecVars, authVars>>

notAuth == <<matchVars, liveVars, codecVars, qualityVars>>

-----------------------------------------------------------------------------
(* Bounds of the model.                                                    *)

\* Longest candidate list handed to find_match.
MaxCand == 2

\* Coordinates (tenths) the vectors are drawn from.  Their differences are
\* 0, 3, 4 and 7 tenths, which give the distances 0.3 and 0.4 (accepted),
\* 0.5 (the threshold itself, from the differences 3 and 4) and 0.565, 0.7,
\* 0.806, ... (rejected).
Coords == {0, 4, 7}

\* Dimensionalities of the vectors: the empty array, one element (which numpy
\* broadcasts against any length) and two elements.
Dims == {0, 1, 2}

Vectors == UNION {[1..n -> Coords] : n \in Dims}

-----------------------------------------------------------------------------
(* Numeric helpers.                                                        *)

RECURSIVE SqrtSearch(_, _, _)
SqrtSearch(n, lo, hi) ==
    IF lo = hi THEN lo
    ELSE LET mid == (lo + hi + 1) \div 2
         IN  IF mid * mid <= n THEN SqrtSearch(n, mid, hi)
                               ELSE SqrtSearch(n, lo, mid - 1)

\* floor of the square root, for 0 <= n < 2^31
ISqrt(n) == SqrtSearch(n, 0, 46340)

RECURSIVE SumSq(_)
SumSq(s) == IF s = <<>> THEN 0 ELSE Head(s) * Head(s) + SumSq(Tail(s))

Max(a, b) == IF a >= b THEN a ELSE b

-----------------------------------------------------------------------------
(* FaceService: distance, similarity, find_match.                          *)

\* DISTANCE_THRESHOLD = 0.5, in thousandths
DISTANCE_THRESHOLD == 500

\* float('inf'): above every distance of the model
Infinity == 1000000

\* numpy's broadcasting of two 1-d arrays: the shapes are compatible when the
\* lengths are equal or one of them is 1.
Broadcastable(a, b) == Len(a) = Len(b) \/ Len(a) = 1 \/ Len(b) = 1

\* embedding1 - embedding2 under broadcasting (defined when Broadcastable)
Subtract(a, b) ==
    IF Len(a) = Len(b) THEN [i \in 1..Len(a) |-> a[i] - b[i]]
    ELSE IF Len(a) = 1 THEN [i \in 1..Len(b) |-> a[1] - b[i]]
    ELSE [i \in 1..Len(a) |-> a[i] - b[1]]

\* np.linalg.norm of a vector of tenths, in thousandths
Norm(v) == ISqrt(SumSq(v) * 10000)

\* calculate_distance: float(np.linalg.norm(embedding1 - embedding2)).
\* Raises ValueError (operands could not be broadcast) when not Broadcastable.
DistanceRaises(a, b) == ~Broadcastable(a, b)

calculate_distance(a, b) == Norm(Subtract(a, b))

\* the distance handed back in the place of the similarity
SimilarityAsDistance(distance) == distance

\* similarity = max(0, 1.0 - distance)
SimilarityOf(distance) == Max(0, 1000 - distance)

calculate_similarity(a, b) == SimilarityOf(calculate_distance(a, b))

\* the comparison of the scan: distance < best_distance
CloserOrEqual(distance, best) == distance <= best

Closer(distance, best) == distance < best

\* the acceptance test: best_distance <= DISTANCE_THRESHOLD
WithinThresholdStrict(distance) == distance < DISTANCE_THRESHOLD

WithinThreshold(distance) == distance <= DISTANCE_THRESHOLD

NoResult == [kind |-> "pending", id |-> 0, user_id |-> 0, similarity |-> 0]

NoMatch == [kind |-> "none", id |-> 0, user_id |-> 0, similarity |-> 0]

Raised(what) == [kind |-> "raised", what |-> what]

\* the enrolled rows: signature id i belongs to owner 10 (odd i) or 11 (even
\* i), so that an owner has several signatures once there are three rows
OwnerOfRow(i) == 10 + ((i - 1) % 2)

\* Candidate lists, in the order the rows come from the table.
Candidates ==
    UNION {{[i \in 1..n |-> [id |-> i, user_id |-> OwnerOfRow(i), vec |-> vs[i]]]
              : vs \in [1..n -> Vectors]} : n \in 0..MaxCand}

MatchStart ==
    /\ query \in Vectors
    /\ stored \in Candidates
    /\ fm_pc = "scan"
    /\ fm_i = 1
    /\ best_match = <<>>
    /\ best_distance = Infinity
    /\ fm_result = NoResult

\* one iteration of `for emb_id, user_id, stored_emb in stored_embeddings`
FindMatchStep ==
    /\ fm_pc = "scan"
    /\ fm_i <= Len(stored)
    /\ LET c == stored[fm_i]
       IN  IF DistanceRaises(query, c.vec)
           THEN /\ fm_pc' = "done"
                /\ fm_result' = Raised("ValueError")
                /\ UNCHANGED <<fm_i, best_match, best_distance>>
           ELSE LET distance == calculate_distance(query, c.vec)
                IN  /\ IF Closer(distance, best_distance)
                       THEN /\ best_distance' = distance
                            /\ best_match' =
                                 <<[id |-> c.id, user_id |-> c.user_id,
                                    distance |-> distance]>>
                       ELSE UNCHANGED <<best_match, best_distance>>
                    /\ fm_i' = fm_i + 1
                    /\ UNCHANGED <<fm_pc, fm_result>>
    /\ UNCHANGED <<query, stored>>
    /\ UNCHANGED notMatch

\* after the loop: `if best_match and best_distance <= DISTANCE_THRESHOLD`
FindMatchReturn ==
    /\ fm_pc = "scan"
    /\ fm_i > Len(stored)
    /\ fm_pc' = "done"
    /\ fm_result' =
         IF best_match # <<>> /\ WithinThreshold(best_distance)
         THEN [kind |-> "match", id |-> best_match[1].id,
               user_id |-> best_match[1].user_id,
               similarity |-> SimilarityOf(best_match[1].distance)]
         ELSE NoMatch
    /\ UNCHANGED <<query, stored, fm_i, best_match, best_distance>>
    /\ UNCHANGED notMatch

\* no find_match call in progress
MatchIdle ==
    /\ query = <<>>
    /\ stored = <<>>
    /\ fm_pc = "idle"
    /\ fm_i = 1
    /\ best_match = <<>>
    /\ best_distance = Infinity
    /\ fm_result = NoResult

MatchNext == FindMatchStep \/ FindMatchReturn

-----------------------------------------------------------------------------
(* LivenessDetector: detect_blink and check_liveness.                      *)

\* Longest frame sequence of a single call.
MaxFrames == 6

\* Longest frame sequence of each of two concurrent calls.
MaxConcFrames == 5

\* EAR_THRESHOLD = 0.25, in hundredths
EAR_THRESHOLD == 25

\* one frame more than the code asks for
ThreeConsecutiveFrames == 2 + 1

CONSECUTIVE_FRAMES == 2

\* one frame fewer than the code asks for
FourFrames == 5 - 1

\* `if len(frames) < 5`
MIN_FRAMES == 5

\* the average EAR (hundredths) the landmark predictor yields on a frame with
\* a face: 0 (degenerate eye), just below the threshold, the threshold itself
EarValues == {0, 24, 25}

\* A frame is what the detector and the predictor see in it: whether the
\* detector finds a face, and the average eye aspect ratio of the largest face.
NoFaceFrame == [face |-> FALSE, ear |-> 0]

FaceFrame(e) == [face |-> TRUE, ear |-> e]

FrameKinds == {NoFaceFrame} \cup {FaceFrame(e) : e \in EarValues}

OpenFrame == FaceFrame(25)

ClosedFrame == FaceFrame(24)

Calls == {1, 2}

\* detect_blink(frame) -> (is_blinking, average_ear)
detect_blink(frame) ==
    IF ~predictor_loaded THEN [is_blinking |-> FALSE, ear |-> 30]
    ELSE IF ~frame.face THEN [is_blinking |-> FALSE, ear |-> 0]
    ELSE [is_blinking |-> frame.ear < EAR_THRESHOLD, ear |-> frame.ear]

Skipped == [live |-> TRUE, message |-> "Liveness check skipped (predictor not loaded)"]

InsufficientFrames == [live |-> FALSE, message |-> "Not enough frames for liveness check"]

LivenessConfirmed == [live |-> TRUE, message |-> "Liveness verified (blink detected)"]

LivenessFailed == [live |-> FALSE, message |-> "Liveness check failed (no blink detected)"]

Pending == [live |-> FALSE, message |-> "pending"]

\* the body of the for loop on one frame, as a function of the call's locals:
\* loc = [was_open, consecutive_closed, blink_detected]
FrameUpdate(loc, frame) ==
    LET b == detect_blink(frame)
    IN  IF ~b.is_blinking /\ b.ear > 0
        THEN [loc EXCEPT !.was_open = TRUE, !.consecutive_closed = 0]
        ELSE IF b.is_blinking /\ loc.was_open
        THEN [loc EXCEPT !.consecutive_closed = @ + 1,
                         !.blink_detected =
                             loc.consecutive_closed + 1 >= CONSECUTIVE_FRAMES]
        ELSE loc

\* the two early returns of check_liveness, the length test first
EarlyReturnLengthFirst(fs) ==
    IF Len(fs) < MIN_FRAMES THEN <<InsufficientFrames>>
    ELSE IF ~predictor_loaded THEN <<Skipped>>
    ELSE <<>>

\* the two early returns of check_liveness: <<outcome>>, or <<>> to go on
EarlyReturn(fs) ==
    IF ~predictor_loaded THEN <<Skipped>>
    ELSE IF Len(fs) < MIN_FRAMES THEN <<InsufficientFrames>>
    ELSE <<>>

InitialLocals ==
    [was_open |-> FALSE, consecutive_closed |-> 0, blink_detected |-> FALSE]

\* the for loop from frame i on, run without interruption; the locals at its end
RECURSIVE ScanFrom(_, _, _)
ScanFrom(fs, i, loc) ==
    IF i > Len(fs) THEN loc
    ELSE LET new == FrameUpdate(loc, fs[i])
         IN  IF new.blink_detected THEN new ELSE ScanFrom(fs, i + 1, new)

\* check_liveness(frames) as one uninterrupted call
check_liveness(fs) ==
    IF EarlyReturn(fs) # <<>> THEN EarlyReturn(fs)[1]
    ELSE IF ScanFrom(fs, 1, InitialLocals).blink_detected THEN LivenessConfirmed
    ELSE LivenessFailed

\* entry of check_liveness: the two early returns, then the locals
CheckLivenessEnter(c) ==
    /\ lv_pc[c] = "start"
    /\ IF EarlyReturn(frames[c]) # <<>>
       THEN /\ lv_result' = [lv_result EXCEPT ![c] = EarlyReturn(frames[c])[1]]
            /\ lv_pc' = [lv_pc EXCEPT ![c] = "done"]
            /\ UNCHANGED <<was_open, consecutive_closed, blink_detected>>
       ELSE /\ blink_detected' =
                 [blink_detected EXCEPT ![c] = InitialLocals.blink_detected]
            /\ consecutive_closed' =
                 [consecutive_closed EXCEPT ![c] = InitialLocals.consecutive_closed]
            /\ was_open' = [was_open EXCEPT ![c] = InitialLocals.was_open]
            /\ lv_pc' = [lv_pc EXCEPT ![c] = "loop"]
            /\ UNCHANGED lv_result
    /\ UNCHANGED <<frames, lv_i, processed, detectorVars>>
    /\ UNCHANGED notLive

\* a variant of the loop body that keeps the count in self.blink_counter
CheckLivenessFrameShared(c) ==
    /\ lv_pc[c] = "loop"
    /\ lv_i[c] <= Len(frames[c])
    /\ LET loc == [was_open |-> was_open[c],
                   consecutive_closed |-> blink_counter,
                   blink_detected |-> blink_detected[c]]
           new == FrameUpdate(loc, frames[c][lv_i[c]])
       IN  /\ was_open' = [was_open EXCEPT ![c] = new.was_open]
           /\ blink_counter' = new.consecutive_closed
           /\ blink_detected' = [blink_detected EXCEPT ![c] = new.blink_detected]
           /\ lv_pc' = [lv_pc EXCEPT ![c] = IF new.blink_detected THEN "ret" ELSE "loop"]
           /\ lv_i' = [lv_i EXCEPT ![c] = IF new.blink_detected THEN @ ELSE @ + 1]
    /\ processed' = [processed EXCEPT ![c] = @ + 1]
    /\ UNCHANGED <<frames, lv_result, consecutive_closed, predictor_loaded,
                   frame_counter>>
    /\ UNCHANGED notLive

\* one iteration of `for frame in frames`; reaching CONSECUTIVE_FRAMES breaks
CheckLivenessFrame(c) ==
    /\ lv_pc[c] = "loop"
    /\ lv_i[c] <= Len(frames[c])
    /\ LET loc == [was_open |-> was_open[c],
                   consecutive_closed |-> consecutive_closed[c],
                   blink_detected |-> blink_detected[c]]
           new == FrameUpdate(loc, frames[c][lv_i[c]])
       IN  /\ was_open' = [was_open EXCEPT ![c] = new.was_open]
           /\ consecutive_closed' =
                [consecutive_closed EXCEPT ![c] = new.consecutive_closed]
           /\ blink_detected' = [blink_detected EXCEPT ![c] = new.blink_detected]
           /\ lv_pc' = [lv_pc EXCEPT ![c] = IF new.blink_detected THEN "ret" ELSE "loop"]
           /\ lv_i' = [lv_i EXCEPT ![c] = IF new.blink_detected THEN @ ELSE @ + 1]
    /\ processed' = [processed EXCEPT ![c] = @ + 1]
    /\ UNCHANGED <<frames, lv_result, detectorVars>>
    /\ UNCHANGED notLive

\* after the loop (run out, or left by break): the two final returns
CheckLivenessReturn(c) ==
    /\ \/ lv_pc[c] = "ret"
       \/ lv_pc[c] = "loop" /\ lv_i[c] > Len(frames[c])
    /\ lv_result' = [lv_result EXCEPT ![c] =
                        IF blink_detected[c] THEN LivenessConfirmed
                                             ELSE LivenessFailed]
    /\ lv_pc' = [lv_pc EXCEPT ![c] = "done"]
    /\ UNCHANGED <<frames, lv_i, was_open, consecutive_closed, blink_detected,
                   processed, detectorVars>>
    /\ UNCHANGED notLive

\* __init__ has run: the counters are 0; the calls named in `active` are about
\* to start on the frame sequences fs
DetectorStart(active, fs) ==
    /\ blink_counter = 0
    /\ frame_counter = 0
    /\ frames = fs
    /\ lv_pc = [c \in Calls |-> IF c \in active THEN "start" ELSE "idle"]
    /\ lv_i = [c \in Calls |-> 1]
    /\ was_open = [c \in Calls |-> FALSE]
    /\ consecutive_closed = [c \in Calls |-> 0]
    /\ blink_detected = [c \in Calls |-> FALSE]
    /\ lv_result = [c \in Calls |-> Pending]
    /\ processed = [c \in Calls |-> 0]

FrameSeqs(kinds, n) == UNION {[1..k -> kinds] : k \in 0..n}

\* no check_liveness call at all
LiveIdle ==
    /\ predictor_loaded = TRUE
    /\ DetectorStart({}, [c \in Calls |-> <<>>])

\* one call; the predictor loaded or not
LiveStart ==
    /\ predictor_loaded \in BOOLEAN
    /\ \E fs \in FrameSeqs(FrameKinds, MaxFrames) :
           DetectorStart({1}, [c \in Calls |-> IF c = 1 THEN fs ELSE <<>>])

\* two calls, each on its own frames
ConcStart ==
    /\ predictor_loaded = TRUE
    /\ \E f1, f2 \in FrameSeqs({OpenFrame, ClosedFrame}, MaxConcFrames) :
           DetectorStart(Calls, [c \in Calls |-> IF c = 1 THEN f1 ELSE f2])

LiveNext ==
    \/ CheckLivenessEnter(1)
    \/ CheckLivenessFrame(1)
    \/ CheckLivenessReturn(1)

ConcNext ==
    \E c \in Calls :
        \/ CheckLivenessEnter(c)
        \/ CheckLivenessFrame(c)
        \/ CheckLivenessReturn(c)
-----------------------------------------------------------------------------
(* The codec.  A numpy array is its element width and its buffer; a float  *)
(* is the little-endian bytes of its IEEE-754 pattern.                     *)

\* Most elements of an array handed to embedding_to_bytes.
MaxCodecDim == 2

\* Longest byte string handed to bytes_to_embedding directly.
MaxBlob == 5

\* itemsize of np.float32
FLOAT32_SIZE == 4

\* itemsize of np.float64
FLOAT64_SIZE == 8

\* 0.0, 0.5 and 1.0 as float32 and as float64, little-endian
Zero32 == <<0, 0, 0, 0>>

Half32 == <<0, 0, 0, 63>>

One32 == <<0, 0, 128, 63>>

Zero64 == <<0, 0, 0, 0, 0, 0, 0, 0>>

Half64 == <<0, 0, 0, 0, 0, 0, 224, 63>>

One64 == <<0, 0, 0, 0, 0, 0, 240, 63>>

Float32s == {Zero32, Half32, One32}

Float64s == {Zero64, Half64, One64}

RECURSIVE Flatten(_)
Flatten(ss) == IF ss = <<>> THEN <<>> ELSE Head(ss) \o Flatten(Tail(ss))

\* the array of the given element width holding the elements elems
ArrayOf(itemsize, elems) == [itemsize |-> itemsize, data |-> Flatten(elems)]

ArraySize(a) == Len(a.data) \div a.itemsize

\* element i (1-based) of an array: its bytes
Element(a, i) == SubSeq(a.data, (i - 1) * a.itemsize + 1, i * a.itemsize)

Arrays ==
    UNION {{ArrayOf(FLOAT32_SIZE, e) : e \in [1..n -> Float32s]}
             \cup {ArrayOf(FLOAT64_SIZE, e) : e \in [1..n -> Float64s]}
           : n \in 0..MaxCodecDim}

Blobs == UNION {[1..n -> {0, 63}] : n \in 0..MaxBlob}

\* A payload is its comma-separated parts (a data URL has two: the media-type
\* declaration and the data).  A part is base64 of an image ("image"), base64
\* of something that is no image ("text"), or malformed base64 ("malformed").
PartKinds == {"image", "text", "malformed"}

Payloads == UNION {[1..n -> PartKinds] : n \in 1..3}

NoArray == ArrayOf(FLOAT32_SIZE, <<>>)

Returned(what, value) == [kind |-> what, value |-> value]

\* embedding_to_bytes: embedding.tobytes(), the buffer in the array's own dtype
embedding_to_bytes(embedding) == embedding.data

\* bytes_to_embedding: np.frombuffer(data, dtype=np.float32); raises ValueError
\* when the buffer size is not a multiple of the element size
bytes_to_embedding(data) ==
    IF Len(data) % FLOAT32_SIZE # 0 THEN Raised("ValueError")
    ELSE Returned("array", [itemsize |-> FLOAT32_SIZE, data |-> data])

\* decode_base64_image: the part after the first comma if there is a comma,
\* base64.b64decode (raises binascii.Error), Image.open (raises
\* UnidentifiedImageError), convert("RGB")
decode_base64_image(payload) ==
    LET part == IF Len(payload) >= 2 THEN payload[2] ELSE payload[1]
    IN  IF part = "malformed" THEN Raised("binascii.Error")
        ELSE IF part = "text" THEN Raised("UnidentifiedImageError")
        ELSE Returned("pixels", "RGB")

CodecRest ==
    /\ cd_array = NoArray
    /\ cd_bytes = <<>>
    /\ cd_payload = <<>>
    /\ cd_out = NoResult

CodecIdle == cd_op = "none" /\ cd_pc = "idle" /\ CodecRest

\* one of: an array to encode and decode again, bytes to decode, a payload
CodecStart ==
    \/ /\ cd_op = "roundtrip"
       /\ cd_pc = "encode"
       /\ cd_array \in Arrays
       /\ cd_bytes = <<>>
       /\ cd_payload = <<>>
       /\ cd_out = NoResult
    \/ /\ cd_op = "decode"
       /\ cd_pc = "decode"
       /\ cd_array = NoArray
       /\ cd_bytes \in Blobs
       /\ cd_payload = <<>>
       /\ cd_out = NoResult
    \/ /\ cd_op = "image"
       /\ cd_pc = "image"
       /\ cd_array = NoArray
       /\ cd_bytes = <<>>
       /\ cd_payload \in Payloads
       /\ cd_out = NoResult

EmbeddingToBytes ==
    /\ cd_pc = "encode"
    /\ cd_bytes' = embedding_to_bytes(cd_array)
    /\ cd_pc' = "decode"
    /\ UNCHANGED <<cd_op, cd_array, cd_payload, cd_out>>
    /\ UNCHANGED notCodec

BytesToEmbedding ==
    /\ cd_pc = "decode"
    /\ cd_out' = bytes_to_embedding(cd_bytes)
    /\ cd_pc' = "done"
    /\ UNCHANGED <<cd_op, cd_array, cd_bytes, cd_payload>>
    /\ UNCHANGED notCodec

DecodeBase64Image ==
    /\ cd_pc = "image"
    /\ cd_out' = decode_base64_image(cd_payload)
    /\ cd_pc' = "done"
    /\ UNCHANGED <<cd_op, cd_array, cd_bytes, cd_payload>>
    /\ UNCHANGED notCodec

CodecNext == EmbeddingToBytes \/ BytesToEmbedding \/ DecodeBase64Image

-----------------------------------------------------------------------------
(* validate_face_quality.                                                  *)

\* Most face regions the detector reports in one image.
MaxFaces == 2

\* `if face_width < 50 or face_height < 50`
MIN_FACE_SIZE == 50

\* face_locations' regions (top, right, bottom, left): 49, 50 or 51 px wide,
\* 49 or 50 px high
Regions == [top : {0}, right : {50, 51}, bottom : {49, 50}, left : {0, 1}]

\* An image is what the library does with it: the regions face_locations
\* reports (or that it raises), and whether face_encodings yields an encoding
\* (or raises).
Images ==
    [locations : UNION {[1..n -> Regions] : n \in 0..MaxFaces},
     encodable : BOOLEAN,
     locations_raise : BOOLEAN,
     encodings_raise : BOOLEAN]

Outcome(ok, message) == [is_valid |-> ok, message |-> message]

NoFaceDetected == Outcome(FALSE, "No face detected in the image")

FaceTooSmall == Outcome(FALSE, "Face is too small. Please move closer to the camera")

EmbeddingUnavailable == Outcome(FALSE, "Could not process face features")

FaceOk == Outcome(TRUE, "Face detected successfully")

ValidationError == Outcome(FALSE, "Face validation error")

QualityPending == Outcome(FALSE, "pending")

\* the size test with `and` for `or`
TooSmallBoth(loc) ==
    (loc.right - loc.left) < MIN_FACE_SIZE /\ (loc.bottom - loc.top) < MIN_FACE_SIZE

\* face_width < 50 or face_height < 50
TooSmall(loc) ==
    (loc.right - loc.left) < MIN_FACE_SIZE \/ (loc.bottom - loc.top) < MIN_FACE_SIZE

QualityIdle ==
    /\ q_image = [locations |-> <<>>, encodable |-> FALSE,
                  locations_raise |-> FALSE, encodings_raise |-> FALSE]
    /\ q_pc = "idle"
    /\ q_result = QualityPending
    /\ detector_calls = 0
    /\ extractor_calls = 0

QualityStart ==
    /\ q_image \in Images
    /\ q_pc = "detect"
    /\ q_result = QualityPending
    /\ detector_calls = 0
    /\ extractor_calls = 0

\* face_locations, the no-face test and the size test of the first region
QualityDetect ==
    /\ q_pc = "detect"
    /\ detector_calls' = detector_calls + 1
    /\ IF q_image.locations_raise
       THEN q_pc' = "done" /\ q_result' = ValidationError
       ELSE IF Len(q_image.locations) = 0
       THEN q_pc' = "done" /\ q_result' = NoFaceDetected
       ELSE IF TooSmall(q_image.locations[1])
       THEN q_pc' = "done" /\ q_result' = FaceTooSmall
       ELSE q_pc' = "encode" /\ UNCHANGED q_result
    /\ UNCHANGED <<q_image, extractor_calls>>
    /\ UNCHANGED notQuality

\* face_encodings and the test of its result
QualityEncode ==
    /\ q_pc = "encode"
    /\ extractor_calls' = extractor_calls + 1
    /\ q_pc' = "done"
    /\ q_result' = IF q_image.encodings_raise THEN ValidationError
                   ELSE IF ~q_image.encodable THEN EmbeddingUnavailable
                   ELSE FaceOk
    /\ UNCHANGED <<q_image, detector_calls>>
    /\ UNCHANGED notQuality

QualityNext == QualityDetect \/ QualityEncode

-----------------------------------------------------------------------------
(* The routes of routes/auth.py over the tables users and face_embeddings. *)
(*                                                                         *)
(* A handler is an `async def` with no await in its body and works on a    *)
(* session of its own, which it commits or abandons before it answers: it  *)
(* runs from its first line to its response with no other handler in       *)
(* between, so a handler is one action.  The primary keys are the ones the *)
(* default database (SQLite) hands out: one more than the largest key in   *)
(* the table.                                                              *)

\* Largest users.id the table hands out in the model.
MaxUserId == 2

\* `if len(request.face_images) < 3`
MIN_IMAGES == 3

\* `if len(request.face_images) > 10`
MAX_IMAGES == 10

Emails == {"ann@example.com", "bob@example.com"}

\* how many images a registration sends: none, and the counts on both sides
\* of the two limits
ImageCounts == {0, 2, 3, 10, 11}

\* the faces that enrol: 0.4 apart, so each is within the threshold of the other
EnrolFaces == {<<0, 0>>, <<4, 0>>}

\* the faces that ask to be authenticated: the enrolled ones, one that is 0.4
\* from <<4, 0>> and 0.566 from <<0, 0>>, and one that is far from both
QueryFaces == EnrolFaces \cup {<<4, 4>>, <<7, 7>>}

\* 0.0, 0.4 and 0.7 as float32, little-endian
Float32Of(c) ==
    CASE c = 0 -> Zero32
      [] c = 4 -> <<205, 204, 204, 62>>
      [] c = 7 -> <<51, 51, 51, 63>>

\* the coordinate a float32 element holds
CoordOf(bytes) == CHOOSE c \in Coords : Float32Of(c) = bytes

\* np.array(encodings[0], dtype=np.float32)
Float32Array(vec) == ArrayOf(FLOAT32_SIZE, [i \in 1..Len(vec) |-> Float32Of(vec[i])])

\* the vector a float32 array holds
VectorOf(a) == [i \in 1..ArraySize(a) |-> CoordOf(Element(a, i))]

\* A submitted image: the base64 string (as the parts around its commas), and
\* what the face_recognition library sees in the decoded picture.
Photo(payload, locations, encodable, encoding) ==
    [payload |-> payload, locations |-> locations, encodable |-> encodable,
     locations_raise |-> FALSE, encodings_raise |-> FALSE, encoding |-> encoding]

LargeRegion == [top |-> 0, right |-> 50, bottom |-> 50, left |-> 0]

SmallRegion == [top |-> 0, right |-> 50, bottom |-> 49, left |-> 0]

GoodPhoto(face) == Photo(<<"text", "image">>, <<LargeRegion>>, TRUE, face)

\* not base64
MalformedPhoto(face) == Photo(<<"malformed">>, <<LargeRegion>>, TRUE, face)

\* a picture with nobody in it
EmptyPhoto(face) == Photo(<<"image">>, <<>>, FALSE, face)

\* a face 50 x 49 px: the encoder finds it, the quality gate refuses it
DistantPhoto(face) == Photo(<<"image">>, <<SmallRegion>>, TRUE, face)

\* a face the detector finds and the encoder does not
BlurredPhoto(face) == Photo(<<"image">>, <<LargeRegion>>, FALSE, face)

BadPhotos(face) ==
    {MalformedPhoto(face), EmptyPhoto(face), DistantPhoto(face), BlurredPhoto(face)}

\* validate_face_quality, from the image to its (is_valid, message)
validate_face_quality(image) ==
    IF image.locations_raise THEN ValidationError
    ELSE IF Len(image.locations) = 0 THEN NoFaceDetected
    ELSE IF TooSmall(image.locations[1]) THEN FaceTooSmall
    ELSE IF image.encodings_raise THEN ValidationError
    ELSE IF ~image.encodable THEN EmbeddingUnavailable
    ELSE FaceOk

\* generate_embedding: <<>> for None, <<array>> otherwise
generate_embedding(image) ==
    IF image.encodings_raise \/ ~image.encodable THEN <<>>
    ELSE <<Float32Array(image.encoding)>>

\* the for loop of find_match from candidate i on; best is (best_match,
\* best_distance), or the exception calculate_distance raised
RECURSIVE ScanCandidates(_, _, _, _)
ScanCandidates(q, cands, i, best) ==
    IF i > Len(cands) THEN best
    ELSE IF DistanceRaises(q, cands[i].vec) THEN Raised("ValueError")
    ELSE LET distance == calculate_distance(q, cands[i].vec)
         IN  IF Closer(distance, best.best_distance)
             THEN ScanCandidates(q, cands, i + 1,
                      [kind |-> "best",
                       best_match |-> <<[id |-> cands[i].id,
                                         user_id |-> cands[i].user_id,
                                         distance |-> distance]>>,
                       best_distance |-> distance])
             ELSE ScanCandidates(q, cands, i + 1, best)

\* find_match as one call
find_match(query_embedding, stored_embeddings) ==
    LET best == ScanCandidates(query_embedding, stored_embeddings, 1,
                    [kind |-> "best", best_match |-> <<>>,
                     best_distance |-> Infinity])
    IN  IF best.kind = "raised" THEN best
        ELSE IF best.best_match # <<>> /\ WithinThreshold(best.best_distance)
        THEN [kind |-> "match", id |-> best.best_match[1].id,
              user_id |-> best.best_match[1].user_id,
              similarity |-> SimilarityOf(best.best_match[1].distance)]
        ELSE NoMatch

\* the key of a new row: one more than the largest key of the table
NextId(ids) == IF ids = {} THEN 1 ELSE 1 + (CHOOSE m \in ids : \A k \in ids : k <= m)

UserIds == {u.id : u \in users}

EmbeddingIds == {embeddings[i].id : i \in 1..Len(embeddings)}

\* a response: the HTTP status, AuthResponse.success, the message (with the
\* 1-based image it is about, and the count it reports), and the user the
\* access token names (0: no token)
Answer(code, ok, text, image, count, user_id, similarity) ==
    [status |-> code, success |-> ok, text |-> text, image |-> image,
     count |-> count, user_id |-> user_id, similarity |-> similarity]

BadRequest(text, image) == Answer(400, FALSE, text, image, 0, 0, 0)

NotFound(text) == Answer(404, FALSE, text, 0, 0, 0, 0)

Refused(text) == Answer(200, FALSE, text, 0, 0, 0, 0)

NoRequest == [op |-> "none"]

NoResponse == Answer(0, FALSE, "", 0, 0, 0, 0)

\* the body of register_user's loop for one image: the embedding, or the
\* detail of the HTTPException
ProcessImage(image) ==
    LET decoded == decode_base64_image(image.payload)
        quality == validate_face_quality(image)
        embedding == generate_embedding(image)
    IN  IF decoded.kind = "raised"
        THEN [ok |-> FALSE, text |-> "Error processing image", embedding |-> NoArray]
        ELSE IF ~quality.is_valid
        THEN [ok |-> FALSE, text |-> quality.message, embedding |-> NoArray]
        ELSE IF embedding = <<>>
        THEN [ok |-> FALSE, text |-> "Could not generate face embedding",
              embedding |-> NoArray]
        ELSE [ok |-> TRUE, text |-> "", embedding |-> embedding[1]]

\* the first image the loop raises on (0: none)
FirstRejected(images) ==
    IF \A i \in 1..Len(images) : ProcessImage(images[i]).ok THEN 0
    ELSE CHOOSE i \in 1..Len(images) :
             /\ ~ProcessImage(images[i]).ok
             /\ \A j \in 1..(i - 1) : ProcessImage(images[j]).ok

\* the tables and the response a handler leaves
Effect(us, es, answer) == [users |-> us, embeddings |-> es, response |-> answer]

\* the rows register_user adds for the images it was sent
NewRows(r, id) ==
    LET first == NextId(EmbeddingIds)
    IN  [k \in 1..Len(r.face_images) |->
            [id |-> first + k - 1,
             user_id |-> id,
             embedding |->
                 embedding_to_bytes(ProcessImage(r.face_images[k]).embedding)]]

\* register_user with each row written and committed as its image passes
register_user_row_by_row(r) ==
    LET n == Len(r.face_images)
        bad == FirstRejected(r.face_images)
        id == NextId(UserIds)
    IN  IF \E u \in users : u.email = r.email
        THEN Effect(users, embeddings,
                    BadRequest("User with this email already exists", 0))
        ELSE IF n < MIN_IMAGES
        THEN Effect(users, embeddings,
                    BadRequest("At least 3 face images are required for registration", 0))
        ELSE IF n > MAX_IMAGES
        THEN Effect(users, embeddings,
                    BadRequest("Maximum 10 face images allowed", 0))
        ELSE IF bad # 0
        THEN Effect(users \cup {[id |-> id, email |-> r.email]},
                    embeddings \o SubSeq(NewRows(r, id), 1, bad - 1),
                    BadRequest(ProcessImage(r.face_images[bad]).text, bad))
        ELSE Effect(users \cup {[id |-> id, email |-> r.email]},
                    embeddings \o NewRows(r, id),
                    Answer(200, TRUE, "User registered successfully", 0, n, id, 0))

\* register_user: the email test, the two length tests, the loop over the
\* images (which raises at the first image that fails), and only then the
\* user row, one embedding row per image, and the commit
register_user(r) ==
    LET n == Len(r.face_images)
        bad == FirstRejected(r.face_images)
        id == NextId(UserIds)
    IN  IF \E u \in users : u.email = r.email
        THEN Effect(users, embeddings,
                    BadRequest("User with this email already exists", 0))
        ELSE IF n < MIN_IMAGES
        THEN Effect(users, embeddings,
                    BadRequest("At least 3 face images are required for registration", 0))
        ELSE IF n > MAX_IMAGES
        THEN Effect(users, embeddings,
                    BadRequest("Maximum 10 face images allowed", 0))
        ELSE IF bad # 0
        THEN Effect(users, embeddings,
                    BadRequest(ProcessImage(r.face_images[bad]).text, bad))
        ELSE Effect(users \cup {[id |-> id, email |-> r.email]},
                    embeddings \o NewRows(r, id),
                    Answer(200, TRUE, "User registered successfully", 0, n, id, 0))

\* the rows of face_embeddings as find_match takes them: (id, user_id,
\* bytes_to_embedding(embedding))
StoredEmbeddings ==
    [i \in 1..Len(embeddings) |->
        [id |-> embeddings[i].id, user_id |-> embeddings[i].user_id,
         vec |-> VectorOf(bytes_to_embedding(embeddings[i].embedding).value)]]

\* `except Exception as e`
AuthenticationError == Refused("Authentication error")

\* authenticate_user: the tables are only read
authenticate_user(r) ==
    LET image == r.face_image
        decoded == decode_base64_image(image.payload)
        query_embedding == generate_embedding(image)
        match == find_match(VectorOf(query_embedding[1]), StoredEmbeddings)
    IN  Effect(users, embeddings,
            IF decoded.kind = "raised" THEN AuthenticationError
            ELSE IF query_embedding = <<>>
            THEN Refused("No face detected in the image")
            ELSE IF Len(embeddings) = 0
            THEN Refused("No registered users found")
            ELSE IF \E i \in 1..Len(embeddings) :
                        bytes_to_embedding(embeddings[i].embedding).kind = "raised"
            THEN AuthenticationError
            ELSE IF match.kind = "raised" THEN AuthenticationError
            ELSE IF match.kind = "none"
            THEN Refused("Face not recognized. Please register first.")
            ELSE IF ~(\E u \in users : u.id = match.user_id)
            THEN Refused("User not found in database")
            ELSE Answer(200, TRUE, "Authentication successful", 0, 0,
                        match.user_id, match.similarity))

RECURSIVE Without(_, _)
\* the rows that do not belong to the user
Without(rows, user_id) ==
    IF rows = <<>> THEN <<>>
    ELSE IF Head(rows).user_id = user_id THEN Without(Tail(rows), user_id)
    ELSE <<Head(rows)>> \o Without(Tail(rows), user_id)

\* delete_user that removes the users row alone
delete_user_row_only(user_id) ==
    IF ~(\E u \in users : u.id = user_id)
    THEN Effect(users, embeddings, NotFound("User not found"))
    ELSE Effect({u \in users : u.id # user_id}, embeddings,
                Answer(200, TRUE, "User deleted successfully", 0, 0, 0, 0))

\* delete_user: db.delete(user) deletes the user's embeddings with the user
\* (cascade="all, delete-orphan")
delete_user(user_id) ==
    IF ~(\E u \in users : u.id = user_id)
    THEN Effect(users, embeddings, NotFound("User not found"))
    ELSE Effect({u \in users : u.id # user_id}, Without(embeddings, user_id),
                Answer(200, TRUE, "User deleted successfully", 0, 0, 0, 0))

\* the image lists a registration sends: n pictures of one face, all good or
\* with a bad one in the first or in the last place
ImageLists(face) ==
    UNION {{[i \in 1..n |-> IF i = b THEN bad ELSE GoodPhoto(face)]
              : b \in {0, 1, n}, bad \in BadPhotos(face)} : n \in ImageCounts}

RegisterRequests ==
    {[op |-> "register", email |-> e, face_images |-> images]
       : e \in Emails, images \in UNION {ImageLists(face) : face \in EnrolFaces}}

AuthenticateRequests ==
    {[op |-> "authenticate", face_image |-> image]
       : image \in UNION {{GoodPhoto(face)} \cup BadPhotos(face) : face \in QueryFaces}}

DeleteRequests == {[op |-> "delete", user_id |-> id] : id \in 1..MaxUserId}

\* a handler's effect on the tables, with the request and its response
Serve(r, effect) ==
    /\ users' = effect.users
    /\ embeddings' = effect.embeddings
    /\ request' = r
    /\ response' = effect.response

\* POST /api/register
RegisterUser ==
    /\ NextId(UserIds) <= MaxUserId
    /\ \E r \in RegisterRequests : Serve(r, register_user(r))
    /\ UNCHANGED notAuth

\* POST /api/authenticate
AuthenticateUser ==
    /\ \E r \in AuthenticateRequests : Serve(r, authenticate_user(r))
    /\ UNCHANGED notAuth

\* DELETE /api/user/{user_id}
DeleteUser ==
    /\ \E r \in DeleteRequests : Serve(r, delete_user(r.user_id))
    /\ UNCHANGED notAuth

\* empty tables, no request served
AuthIdle ==
    /\ users = {}
    /\ embeddings = <<>>
    /\ request = NoRequest
    /\ response = NoResponse

AuthNext == RegisterUser \/ AuthenticateUser \/ DeleteUser

-----------------------------------------------------------------------------
(* Specifications: one per component, the others at rest.                  *)

MatchInit == MatchStart /\ LiveIdle /\ CodecIdle /\ QualityIdle /\ AuthIdle

SpecMatch == MatchInit /\ [][MatchNext]_vars

LiveInit == MatchIdle /\ LiveStart /\ CodecIdle /\ QualityIdle /\ AuthIdle

\* one check_liveness call, every kind of frame
SpecLive == LiveInit /\ [][LiveNext]_vars

ConcInit == MatchIdle /\ ConcStart /\ CodecIdle /\ QualityIdle /\ AuthIdle

\* two check_liveness calls on the one detector, interleaved frame by frame
SpecConc == ConcInit /\ [][ConcNext]_vars

CodecInit == MatchIdle /\ LiveIdle /\ CodecStart /\ QualityIdle /\ AuthIdle

SpecCodec == CodecInit /\ [][CodecNext]_vars

QualityInit == MatchIdle /\ LiveIdle /\ CodecIdle /\ QualityStart /\ AuthIdle

SpecQuality == QualityInit /\ [][QualityNext]_vars

AuthInit == MatchIdle /\ LiveIdle /\ CodecIdle /\ QualityIdle /\ AuthIdle

\* any sequence of register, authenticate and delete requests
SpecAuth == AuthInit /\ [][AuthNext]_vars

-----------------------------------------------------------------------------
(* Claims about find_match.                                                *)

\* every candidate's distance to the query is one the code can compute
AllComparable == \A i \in 1..Len(stored) : ~DistanceRaises(query, stored[i].vec)

DistTo(i) == calculate_distance(query, stored[i].vec)

\* C1: find_match returns a match exactly when the least distance over the
\* candidates is <= the threshold (a distance equal to the threshold is
\* accepted); when the list is empty or every distance exceeds the threshold
\* it returns the no-match sentinel.
C1_MatchIffWithinThreshold ==
    fm_pc = "done" =>
        /\ fm_result.kind = "match" =>
              /\ AllComparable
              /\ \E i \in 1..Len(stored) : DistTo(i) <= DISTANCE_THRESHOLD
        /\ fm_result.kind = "none" =>
              /\ AllComparable
              /\ \A i \in 1..Len(stored) : DistTo(i) > DISTANCE_THRESHOLD
        /\ AllComparable => fm_result.kind \in {"match", "none"}

\* a candidate exactly at the threshold was accepted
C1_Witness ==
    /\ fm_pc = "done"
    /\ fm_result.kind = "match"
    /\ best_distance = DISTANCE_THRESHOLD
    /\ Len(stored) = 2
    /\ Len(query) = 2
    /\ \A i \in 1..Len(stored) : Len(stored[i].vec) = Len(query)
    /\ DistTo(1) > DISTANCE_THRESHOLD

\* the first position of the scan whose distance is the least one
FirstNearest ==
    CHOOSE i \in 1..Len(stored) :
        /\ \A j \in 1..Len(stored) : DistTo(i) <= DistTo(j)
        /\ \A j \in 1..(i - 1) : DistTo(j) > DistTo(i)

\* C2: a returned match names the first candidate in scan order whose
\* distance is the least distance over all candidates.
C2_FirstNearestWins ==
    (fm_pc = "done" /\ fm_result.kind = "match") =>
        /\ fm_result.id = stored[FirstNearest].id
        /\ fm_result.user_id = stored[FirstNearest].user_id

\* two candidates of different owners tie at the least distance
C2_Witness ==
    /\ fm_pc = "done"
    /\ fm_result.kind = "match"
    /\ Len(stored) = 2
    /\ DistTo(1) = DistTo(2)
    /\ stored[1].user_id # stored[2].user_id
    /\ DistTo(1) > 0

\* C3: a candidate whose dimensionality differs from the query's is never
\* compared: the scan does not get past it with a distance.
C3_MismatchNeverCompared ==
    \A i \in 1..Len(stored) :
        i < fm_i => Len(stored[i].vec) = Len(query)

\* max(0, 1 - d) in thousandths, written out
ClippedComplement(d) == IF 1000 - d > 0 THEN 1000 - d ELSE 0

\* C11: the similarity of a returned MatchResult is max(0, 1 - d) for the
\* distance d of the returned candidate; it lies in [0, 1], is 1 when the
\* query equals the stored vector, and no candidate of the list, all of them at
\* least as far as the winner, would have a higher one.
C11_SimilarityIsClippedComplement ==
    (fm_pc = "done" /\ fm_result.kind = "match") =>
        LET d == DistTo(fm_result.id)
        IN  /\ fm_result.similarity = ClippedComplement(d)
            /\ fm_result.similarity >= 0
            /\ fm_result.similarity <= 1000
            /\ query = stored[fm_result.id].vec => fm_result.similarity = 1000
            /\ \A j \in 1..Len(stored) :
                   /\ DistTo(j) >= d
                   /\ ClippedComplement(DistTo(j)) <= fm_result.similarity

\* the example of the specification: distances 0.3 and above the threshold,
\* the first candidate returned with similarity 0.7
C11_Witness ==
    /\ fm_pc = "done"
    /\ fm_result.kind = "match"
    /\ Len(stored) = 2
    /\ Len(query) = 2
    /\ \A i \in 1..Len(stored) : Len(stored[i].vec) = 2
    /\ DistTo(1) = 300
    /\ DistTo(2) > DISTANCE_THRESHOLD
    /\ fm_result.id = 1
    /\ fm_result.similarity = 700

-----------------------------------------------------------------------------
(* Claims about check_liveness.                                            *)

\* eyes open: not blinking and avg_EAR > 0
IsOpen(f) == f.face /\ f.ear >= 25 /\ f.ear > 0

\* blinking: a face whose avg_EAR is below 0.25
IsBlinking(f) == f.face /\ f.ear < 25

\* an eyes-open frame at k immediately followed by two blinking frames
PatternAt(fs, k) ==
    /\ k + 2 <= Len(fs)
    /\ IsOpen(fs[k])
    /\ IsBlinking(fs[k + 1])
    /\ IsBlinking(fs[k + 2])

HasPattern(fs) == \E k \in 1..Len(fs) : PatternAt(fs, k)

FirstPattern(fs) ==
    CHOOSE k \in 1..Len(fs) :
        PatternAt(fs, k) /\ \A j \in 1..(k - 1) : ~PatternAt(fs, j)

\* C4 as stated: a call with fewer than 5 frames always ends InsufficientFrames
\* and is never reported live.
C4_FewFramesInsufficient ==
    (lv_pc[1] = "done" /\ Len(frames[1]) < 5) =>
        lv_result[1] = InsufficientFrames

\* C4 amended: with the predictor loaded, a call with fewer than 5 frames ends
\* InsufficientFrames whatever the frames hold, is not reported live and
\* examines no frame.
C4_FewFramesInsufficientWhenLoaded ==
    (lv_pc[1] = "done" /\ Len(frames[1]) < 5 /\ predictor_loaded) =>
        /\ lv_result[1] = InsufficientFrames
        /\ ~lv_result[1].live
        /\ processed[1] = 0

\* four frames that hold a whole blink are still refused
C4_Witness ==
    /\ lv_pc[1] = "done"
    /\ predictor_loaded
    /\ frames[1] = <<OpenFrame, ClosedFrame, ClosedFrame, OpenFrame>>
    /\ lv_result[1] = InsufficientFrames

\* C5: when the predictor failed to load, check_liveness returns the confirmed
\* outcome with the diagnostic message for every frame sequence and examines
\* no frame.
C5_DegradedAlwaysPasses ==
    ~predictor_loaded =>
        /\ processed[1] = 0
        /\ lv_pc[1] = "done" =>
             /\ lv_result[1] = Skipped
             /\ lv_result[1].live

\* a call without predictor on too few, faceless frames has passed
C5_Witness ==
    /\ lv_pc[1] = "done"
    /\ ~predictor_loaded
    /\ frames[1] = <<NoFaceFrame, NoFaceFrame>>
    /\ lv_result[1] = Skipped

\* C6: with the predictor loaded and at least 5 frames, a sequence holding an
\* eyes-open frame immediately followed by 2 blinking frames is confirmed, the
\* scan stops on a blinking frame no later than the second blinking frame of
\* the first such place, and no frame after it is processed.
C6_BlinkConfirmsAndStops ==
    (predictor_loaded /\ Len(frames[1]) >= 5 /\ HasPattern(frames[1])) =>
        /\ processed[1] <= FirstPattern(frames[1]) + 2
        /\ lv_pc[1] = "done" =>
             /\ lv_result[1] = LivenessConfirmed
             /\ processed[1] = lv_i[1]
             /\ IsBlinking(frames[1][processed[1]])

\* open, closed, closed, open, open: confirmed at the third frame, the last
\* two frames never examined
C6_Witness ==
    /\ lv_pc[1] = "done"
    /\ predictor_loaded
    /\ frames[1] = <<OpenFrame, ClosedFrame, ClosedFrame, OpenFrame, OpenFrame>>
    /\ lv_result[1] = LivenessConfirmed
    /\ processed[1] = 3

\* C8: two concurrent calls on the shared detector do not interfere: each
\* returns what it returns when run alone on its own frames, and the instance
\* fields blink_counter and frame_counter are not written during a call.
C8_ConcurrentCallsIsolated ==
    /\ blink_counter = 0
    /\ frame_counter = 0
    /\ \A c \in Calls :
           lv_pc[c] = "done" => lv_result[c] = check_liveness(frames[c])

\* call 1 has confirmed a blink while call 2 is in the middle of its scan
\* with one closed frame counted
C8_Witness ==
    /\ lv_pc[1] = "done"
    /\ lv_result[1] = LivenessConfirmed
    /\ lv_pc[2] = "loop"
    /\ was_open[2]
    /\ consecutive_closed[2] = 1
    /\ lv_i[2] <= Len(frames[2])

\* an eyes-open frame followed later by two blinking frames next to each other
HasOpenThenConsecutiveBlinks(fs) ==
    \E j, k \in 1..Len(fs) :
        /\ j < k
        /\ k + 1 <= Len(fs)
        /\ IsOpen(fs[j])
        /\ IsBlinking(fs[k])
        /\ IsBlinking(fs[k + 1])

\* C12: with the predictor loaded, check_liveness confirms only if the
\* sequence holds an eyes-open frame followed later by 2 blinking frames that
\* are consecutive in the sequence; a no-face frame between two blinking
\* frames restarts the count.
C12_ConfirmedOnlyByConsecutiveBlinks ==
    (lv_pc[1] = "done" /\ predictor_loaded /\ lv_result[1] = LivenessConfirmed) =>
        HasOpenThenConsecutiveBlinks(frames[1])

-----------------------------------------------------------------------------
(* Claims about validate_face_quality and the codec.                       *)

FirstWidth == q_image.locations[1].right - q_image.locations[1].left

FirstHeight == q_image.locations[1].bottom - q_image.locations[1].top

\* C7: the checks run in the order no-face, face-too-small (first region under
\* 50 px wide or high), embedding-unavailable, the first failing one decides,
\* and with no face or a too small first region the extractor is never invoked.
C7_QualityChecksInOrder ==
    ~q_image.locations_raise =>
        IF Len(q_image.locations) = 0
        THEN /\ extractor_calls = 0
             /\ q_pc = "done" => q_result = NoFaceDetected
        ELSE IF FirstWidth < 50 \/ FirstHeight < 50
        THEN /\ extractor_calls = 0
             /\ q_pc = "done" => q_result = FaceTooSmall
        ELSE q_pc = "done" =>
               /\ extractor_calls = 1
               /\ ~q_image.encodings_raise =>
                    q_result = IF q_image.encodable THEN FaceOk
                               ELSE EmbeddingUnavailable

\* a first region wide enough but 49 px high, before a large second region, in
\* an image the extractor could encode: too small, extractor not invoked
C7_Witness ==
    /\ q_pc = "done"
    /\ ~q_image.locations_raise
    /\ Len(q_image.locations) = 2
    /\ FirstWidth >= 50
    /\ FirstHeight = 49
    /\ q_image.locations[2].bottom - q_image.locations[2].top >= 50
    /\ q_image.encodable
    /\ q_result = FaceTooSmall
    /\ extractor_calls = 0

\* C9: every public core operation reports a failure as a returned outcome
\* and never raises across its boundary (malformed base64 or corrupt image
\* data, a byte string whose length is no multiple of 4).
C9_FailuresAreReturned ==
    cd_pc = "done" => cd_out.kind # "raised"

\* the float32 a float64 of the model converts to
AsFloat32(e) ==
    CASE e = Zero64 -> Zero32
      [] e = Half64 -> Half32
      [] e = One64 -> One32

\* element i of an array as a float32 value
ValueAt(a, i) ==
    IF a.itemsize = FLOAT32_SIZE THEN Element(a, i) ELSE AsFloat32(Element(a, i))

\* C10: bytes_to_embedding(embedding_to_bytes(v)) equals v, with the same
\* length and the same elements in the same order, and the encoding is
\* dimensionality x 4 bytes long, whatever element width v had.
C10_RoundTripExact ==
    (cd_op = "roundtrip" /\ cd_pc = "done") =>
        /\ Len(cd_bytes) = ArraySize(cd_array) * 4
        /\ cd_out.kind = "array"
        /\ ArraySize(cd_out.value) = ArraySize(cd_array)
        /\ \A i \in 1..ArraySize(cd_array) :
               ValueAt(cd_out.value, i) = ValueAt(cd_array, i)

-----------------------------------------------------------------------------
(* Claims about register_user, authenticate_user and delete_user.          *)

\* the image gets through decoding, the quality gate and embedding extraction
Passes(image) ==
    /\ decode_base64_image(image.payload).kind # "raised"
    /\ validate_face_quality(image).is_valid
    /\ generate_embedding(image) # <<>>

\* the rows from position from on
RowsFrom(rows, from) == {rows[k] : k \in from..Len(rows)}

QueryDistance(i) ==
    calculate_distance(request.face_image.encoding, StoredEmbeddings[i].vec)

\* C14: after any sequence of register_user, delete_user and
\* authenticate_user, every stored face embedding is owned by a user that
\* exists; a successful delete_user leaves neither the user nor any of the
\* user's embeddings; and authenticate_user issues a token only with a
\* successful answer, when some stored signature is within the threshold of
\* the submitted face, and the token names an existing user who owns a
\* signature that is nearest to that face.
C14_EmbeddingsOwnedTokenNamesOwner ==
    /\ \A i \in 1..Len(embeddings) : embeddings[i].user_id \in UserIds
    /\ (request.op = "delete" /\ response.success) =>
          /\ request.user_id \notin UserIds
          /\ \A i \in 1..Len(embeddings) : embeddings[i].user_id # request.user_id
    /\ request.op = "authenticate" =>
          /\ response.user_id # 0 <=> response.success
          /\ response.success =>
                /\ response.user_id \in UserIds
                /\ \E i \in 1..Len(embeddings) :
                      /\ embeddings[i].user_id = response.user_id
                      /\ QueryDistance(i) <= 500
                      /\ \A j \in 1..Len(embeddings) : QueryDistance(j) >= QueryDistance(i)

\* user 1 has been deleted, and a face is authenticated as user 2
C14_Witness ==
    /\ request.op = "authenticate"
    /\ response.success
    /\ response.user_id = 2
    /\ UserIds = {2}
    /\ Len(embeddings) = 3
    /\ QueryDistance(1) = 400

====
